---- MODULE Spec2Model ----
(***************************************************************************)
(* Model of the fernet token codec (package fernet): key text encoding,    *)
(* token generation and verification, the legacy JSON verifier and the     *)
(* entry points that dispatch to them.                                     *)
(*                                                                         *)
(* Byte strings are sequences of integers 0..255; texts are sequences of   *)
(* ASCII codes.  A nil slice is the value Nil, which differs from the      *)
(* empty slice <<>>.  Times are kept as package time keeps them: 64-bit    *)
(* seconds (as 8 big-endian bytes, two's complement) and nanoseconds.      *)
(***************************************************************************)
EXTENDS Integers, Sequences, FiniteSets, TLC

\* ------------------------------------------------------------------------
\* Bytes and slices
\* ------------------------------------------------------------------------

\* The nil slice ([]byte(nil)); no byte string contains -1.
Nil == <<-1>>

\* p[lo:hi] of Go, with 0-based lo (inclusive) and hi (exclusive).
Slice(p, lo, hi) == [i \in 1..(hi - lo) |-> p[lo + i]]

\* n copies of the byte c.
Repeat(c, n) == [i \in 1..n |-> c]

RECURSIVE XorBits(_, _, _)
XorBits(a, b, n) ==
  IF n = 0 THEN 0
  ELSE ((a + b) % 2) + 2 * XorBits(a \div 2, b \div 2, n - 1)

\* a XOR b on bytes.
XorByte(a, b) == XorBits(a, b, 8)

\* A comparison of the lengths alone.
ConstantTimeEq_LenOnly(x, y) == Len(x) = Len(y)

\* subtle.ConstantTimeCompare(x, y) = 1
ConstantTimeEq(x, y) == Len(x) = Len(y) /\ \A i \in 1..Len(x) : x[i] = y[i]

\* bytes.Contains(s, <<c>>) for a one-byte separator.
Contains(s, c) == \E i \in 1..Len(s) : s[i] = c

\* ------------------------------------------------------------------------
\* encoding/base64, URLEncoding (padded, '-' and '_' as the last two digits)
\* ------------------------------------------------------------------------

padChar == 61

\* The alphabet: digit v (0..63) to its ASCII code.
encodeURL(v) ==
  IF v < 26 THEN 65 + v
  ELSE IF v < 52 THEN 97 + (v - 26)
  ELSE IF v < 62 THEN 48 + (v - 52)
  ELSE IF v = 62 THEN 45
  ELSE 95

\* The decode map: ASCII code to digit, 255 for a byte outside the alphabet.
decodeMap(c) ==
  IF c >= 65 /\ c <= 90 THEN c - 65
  ELSE IF c >= 97 /\ c <= 122 THEN c - 97 + 26
  ELSE IF c >= 48 /\ c <= 57 THEN c - 48 + 52
  ELSE IF c = 45 THEN 62
  ELSE IF c = 95 THEN 63
  ELSE 255

\* Encoding.EncodedLen(n)
EncodedLen(n) == ((n + 2) \div 3) * 4

\* Encoding.DecodedLen(n)
DecodedLen(n) == (n \div 4) * 3

\* The 4 characters that encode the group of 1..3 bytes starting at src[i].
EncodeGroup(src, i) ==
  LET r  == Len(src) - i + 1
      b0 == src[i]
      b1 == IF r >= 2 THEN src[i + 1] ELSE 0
      b2 == IF r >= 3 THEN src[i + 2] ELSE 0
      v  == b0 * 65536 + b1 * 256 + b2
  IN  << encodeURL(v \div 262144),
         encodeURL((v \div 4096) % 64),
         IF r >= 2 THEN encodeURL((v \div 64) % 64) ELSE padChar,
         IF r >= 3 THEN encodeURL(v % 64) ELSE padChar >>

\* Encoding.Encode / EncodeToString
Encode64(src) ==
  LET g == (Len(src) + 2) \div 3
  IN  [j \in 1..(4 * g) |-> EncodeGroup(src, 3 * ((j - 1) \div 4) + 1)[((j - 1) % 4) + 1]]

\* The least element of a non-empty set of integers.
Min(S) == CHOOSE x \in S : \A y \in S : x <= y

\* The greatest element of a non-empty set of integers.
Max(S) == CHOOSE x \in S : \A y \in S : y <= x

isNewline(c) == c = 10 \/ c = 13

\* The bytes of a quantum of dlen digits d (dlen - 1 bytes).
QuantumBytes(d, dlen) ==
  LET v == d[1] * 262144 + d[2] * 4096 + d[3] * 64 + d[4]
      b == << v \div 65536, (v \div 256) % 256, v % 256 >>
  IN  SubSeq(b, 1, dlen - 1)

\* Encoding.decodeQuantum on the quantum that starts at the 0-based position
\* at of st, the input without the '\r' and '\n' that decodeQuantum skips
\* wherever they stand.  Returns the bytes written, whether the input is
\* corrupt, and whether this quantum ends the decoding (padding or error).
decodeQuantum(st, at) ==
  LET have == IF Len(st) - at < 4 THEN Len(st) - at ELSE 4
      digit(i) == decodeMap(st[at + i])
      nd == Min({i \in 0..have : i = have \/ digit(i + 1) = 255})   \* digits read
      d == [i \in 1..4 |-> IF i <= nd THEN digit(i) ELSE 0]
      stop(out, e) == [out |-> out, err |-> e, last |-> TRUE]
  IN
  IF nd = 4 THEN [out |-> QuantumBytes(d, 4), err |-> FALSE, last |-> FALSE]
  ELSE IF nd = have THEN stop(<<>>, TRUE)                  \* the input ends inside a quantum
  ELSE IF st[at + nd + 1] # padChar THEN stop(<<>>, TRUE)  \* a byte outside the alphabet
  ELSE IF nd < 2 THEN stop(<<>>, TRUE)                     \* padding where a digit must be
  ELSE IF nd = 2 /\ (at + 4 > Len(st) \/ st[at + 4] # padChar) THEN stop(<<>>, TRUE)
  \* anything after the padding is trailing garbage: the quantum is written
  \* all the same
  ELSE stop(QuantumBytes(d, nd), at + 4 < Len(st))

\* Encoding.Decode(dst, src): the bytes written (dst[:n]) and whether it
\* returned an error.  On an error the bytes decoded before it stay in dst.
Decode64(src) ==
  LET st == SelectSeq(src, LAMBDA c : ~isNewline(c))
      nq == (Len(st) + 3) \div 4
      \* the first quantum that is not four digits, nq if there is none
      k == Min({q \in 0..nq : q = nq \/ decodeQuantum(st, 4 * q).last})
      head == [i \in 1..(3 * k) |-> decodeQuantum(st, 4 * ((i - 1) \div 3)).out[((i - 1) % 3) + 1]]
  IN  IF k = nq THEN [out |-> head, err |-> FALSE]
      ELSE LET q == decodeQuantum(st, 4 * k)
           IN  [out |-> head \o q.out, err |-> q.err]

\* ------------------------------------------------------------------------
\* 64-bit integers: 8 bytes, big-endian, two's complement, which is also
\* the form binary.BigEndian.PutUint64 / Uint64 give them in a token.
\* ------------------------------------------------------------------------

\* int64(n) for a small integer n (|n| < 2^31).
RECURSIVE NatBytes(_, _)
NatBytes(n, w) == IF w = 0 THEN <<>> ELSE Append(NatBytes(n \div 256, w - 1), n % 256)

\* The carry into byte i of a + b: the carry out of the bytes after it.
RECURSIVE CarryInto(_, _, _)
CarryInto(a, b, i) ==
  IF i > 8 THEN 0 ELSE (a[i] + b[i] + CarryInto(a, b, i + 1)) \div 256

\* a + b on int64, wrapping on overflow as Go's + does.
Add64(a, b) == [i \in 1..8 |-> (a[i] + b[i] + CarryInto(a, b, i + 1)) % 256]

\* -a on int64.
Neg64(a) == Add64([i \in 1..8 |-> 255 - a[i]], <<0, 0, 0, 0, 0, 0, 0, 1>>)

Int64(n) == IF n >= 0 THEN NatBytes(n, 8) ELSE Neg64(NatBytes(-n, 8))

\* The first index at which a and b differ, 9 if none.
RECURSIVE FirstDiff(_, _, _)
FirstDiff(a, b, i) == IF i > 8 \/ a[i] # b[i] THEN i ELSE FirstDiff(a, b, i + 1)

\* a < b on int64 (signed).
Less64(a, b) ==
  LET i == FirstDiff(a, b, 1)
  IN  IF i > 8 THEN FALSE
      ELSE IF i = 1 THEN (a[1] + 128) % 256 < (b[1] + 128) % 256
      ELSE a[i] < b[i]

IsNeg64(a) == a[1] >= 128

MaxInt64 == <<127, 255, 255, 255, 255, 255, 255, 255>>
MinInt64 == <<128, 0, 0, 0, 0, 0, 0, 0>>

\* ------------------------------------------------------------------------
\* Package time.  A Time is [ext, nsec]: seconds since year 1 (int64) and
\* nanoseconds 0..999999999.  A Duration d (int64 nanoseconds) is kept as
\* [sec, nsec] = [d / 1e9, d % 1e9]; the model draws durations >= 0.
\* ------------------------------------------------------------------------

Second == 1000000000

\* 62135596800 seconds from year 1 to 1970.
unixToInternal == <<0, 0, 0, 14, 119, 145, 247, 0>>

\* time.Unix(sec, 0)
TimeUnix(sec) == [ext |-> Add64(sec, unixToInternal), nsec |-> 0]

\* Time.Unix()
UnixOf(t) == Add64(t.ext, Neg64(unixToInternal))

\* Time.After(u)
After(t, u) == Less64(u.ext, t.ext) \/ (t.ext = u.ext /\ t.nsec > u.nsec)

\* Time.addSec(d): saturates instead of overflowing.
addSec(ext, d) ==
  LET sum == Add64(ext, d)
      dpos == ~IsNeg64(d) /\ d # Int64(0)
  IN  IF Less64(ext, sum) = dpos THEN sum
      ELSE IF dpos THEN MaxInt64
      ELSE Neg64(MaxInt64)

\* Time.Add(d)
TimeAdd(t, d) ==
  LET n == t.nsec + d.nsec
      dsec == IF n >= Second THEN Add64(d.sec, Int64(1)) ELSE d.sec
  IN  [ext |-> addSec(t.ext, dsec), nsec |-> IF n >= Second THEN n - Second ELSE n]

\* The Duration of sec seconds and nsec nanoseconds.
Dur(sec, nsec) == [sec |-> Int64(sec), nsec |-> nsec]

\* ------------------------------------------------------------------------
\* Keys (type Key [32]byte)
\* ------------------------------------------------------------------------

KeyLen == 32

\* Key{}, the all-zero key.
ZeroKey == Repeat(0, KeyLen)

\* Key.signBytes: k[:len(k)/2]
signBytes(k) == Slice(k, 0, KeyLen \div 2)

\* Key.cryptBytes: k[len(k)/2:]
cryptBytes(k) == Slice(k, KeyLen \div 2, KeyLen)

\* ------------------------------------------------------------------------
\* crypto/aes, crypto/cipher, crypto/hmac.  The block cipher and the MAC are
\* stand-ins that keep what the codec relies on: the block cipher is a keyed
\* permutation of 16-byte blocks, inverted by the same key; the MAC is a
\* function of key and message, 32 bytes long, that changes whenever one
\* byte of the message changes.
\* ------------------------------------------------------------------------

BlockSize == 16
Sha256Size == 32

\* Block.Encrypt: one block under the 16-byte key.
EncryptBlock(key, b) == [i \in 1..BlockSize |-> (7 * XorByte(b[i], key[i]) + i) % 256]

\* Block.Decrypt (183 * 7 = 1 mod 256).
DecryptBlock(key, c) ==
  [i \in 1..BlockSize |-> XorByte((183 * ((c[i] + 256 - i) % 256)) % 256, key[i])]

XorBlock(a, b) == [i \in 1..BlockSize |-> XorByte(a[i], b[i])]

\* cipher.NewCBCEncrypter(bc, iv).CryptBlocks(p, p); len(p) is a multiple of
\* the block size at every call.
RECURSIVE CBCEncryptFrom(_, _, _, _)
CBCEncryptFrom(key, prev, p, i) ==
  IF i * BlockSize >= Len(p) THEN <<>>
  ELSE LET c == EncryptBlock(key, XorBlock(Slice(p, i * BlockSize, (i + 1) * BlockSize), prev))
       IN  c \o CBCEncryptFrom(key, c, p, i + 1)

CBCEncrypt(key, iv, p) == CBCEncryptFrom(key, iv, p, 0)

\* cipher.NewCBCDecrypter(bc, iv).CryptBlocks(c, c)
CBCDecrypt(key, iv, c) ==
  LET block(i) == Slice(c, i * BlockSize, (i + 1) * BlockSize)
      plain(i) == XorBlock(DecryptBlock(key, block(i)), IF i = 0 THEN iv ELSE block(i - 1))
  IN  [j \in 1..Len(c) |-> plain((j - 1) \div BlockSize)[((j - 1) % BlockSize) + 1]]

\* Sum of w(i) * p[i] for lo <= i <= hi, w(i) in 1..250.
RECURSIVE WeightedSum(_, _, _)
WeightedSum(p, lo, hi) ==
  IF lo > hi THEN 0
  ELSE IF lo = hi THEN ((lo % 250) + 1) * p[lo]
  ELSE LET mid == (lo + hi) \div 2
       IN  WeightedSum(p, lo, mid) + WeightedSum(p, mid + 1, hi)

\* A digest of p alone, the key left out.
genhmac_NoKey(p, k) ==
  [j \in 1..Sha256Size |->
     IF j = 1 THEN (WeightedSum(p, 1, Len(p)) % 65521) \div 256
     ELSE IF j = 2 THEN (WeightedSum(p, 1, Len(p)) % 65521) % 256
     ELSE ((WeightedSum(p, 1, Len(p)) % 65521) * j + Len(p) + j * j) % 256]

\* hmac.New(sha256.New, k); h.Write(p); h.Sum(nil)
genhmac(p, k) ==
  LET hp == WeightedSum(p, 1, Len(p)) % 65521
      hk == WeightedSum(k, 1, Len(k)) % 65521
  IN  [j \in 1..Sha256Size |->
         IF j = 1 THEN hp \div 256
         ELSE IF j = 2 THEN hp % 256
         ELSE IF j = 3 THEN hk \div 256
         ELSE IF j = 4 THEN hk % 256
         ELSE IF j = 5 THEN Len(p) % 256
         ELSE IF j = 6 THEN Len(k) % 256
         ELSE (hp * j + hk * (j + 1) + j * j) % 256]

\* ------------------------------------------------------------------------
\* fernet.go: the token codec (version 0x80 framing)
\* ------------------------------------------------------------------------

version == 128
tsOffset == 1
ivOffset == tsOffset + 8
payOffset == ivOffset + BlockSize
overhead == 1 + 8 + BlockSize + Sha256Size
maxClockSkew == Dur(60, 0)

\* The outcome of a call that panics (a run-time error such as an index or
\* a slice bound out of range); no byte string contains -2.
Panic == <<-2>>

\* pad without the full block of padding for an aligned message.
pad_NoFullBlock(p, k) ==
  LET n == ((Len(p) + k - 1) \div k) * k
  IN  p \o Repeat((n - Len(p)) % 256, n - Len(p))

\* pad: PKCS #7 padding of p to a multiple of k; returns the padded bytes.
pad(p, k) ==
  LET n == (Len(p) \div k) * k + k
      c == (n - Len(p)) % 256
  IN  p \o Repeat(c, n - Len(p))

\* unpad that leaves the last byte of the padding in place.
unpad_KeepsOne(p) ==
  IF Len(p) = 0 THEN Panic
  ELSE IF \E i \in (Len(p) - p[Len(p)])..(Len(p) - 1) : i < 0 \/ p[i + 1] # p[Len(p)] THEN Nil
  ELSE Slice(p, 0, Len(p) - p[Len(p)] + 1)

\* unpad: removes the padding; Nil if the loop finds it malformed.  p[len(p)-1]
\* is an index out of range on an empty p.
unpad(p) ==
  IF Len(p) = 0 THEN Panic
  ELSE LET c == p[Len(p)]
       IN  IF \E i \in (Len(p) - c)..(Len(p) - 1) : i < 0 \/ p[i + 1] # c THEN Nil
           ELSE Slice(p, 0, Len(p) - c)

\* encodedLen: the token length for a message of n bytes, before base64.
encodedLen(n) == (n \div BlockSize) * BlockSize + BlockSize + overhead

\* gen after pad: the token whose ciphertext encrypts the payload pay, whole
\* blocks that whoever holds the key may fill as they like.
genPayload(pay, iv, ts, k) ==
  LET p == CBCEncrypt(cryptBytes(k), iv, pay)
      frame == <<version>> \o UnixOf(ts) \o iv \o p
  IN  frame \o genhmac(frame, signBytes(k))

\* gen: the token (tok[:n]) for msg, iv, the time ts and the key k.
gen(msg, iv, ts, k) == genPayload(pad(msg, BlockSize), iv, ts, k)

\* Expired with the instant ts + ttl itself excluded.
Expired_AtLimit(ts, ttl, now) == ~After(TimeAdd(ts, ttl), now)

\* Skewed without the allowance of maxClockSkew.
Skewed_NoAllowance(ts, now) == After(ts, now)

\* The two timestamp conditions of verify.
Expired(ts, ttl, now) == After(now, TimeAdd(ts, ttl))

Skewed(ts, now) == After(ts, TimeAdd(now, maxClockSkew))

\* verify with msg == nil: the message, Nil, or Panic.
verify(tok, ttl, now, k) ==
  IF Len(tok) < 1 \/ tok[1] # version THEN Nil
  ELSE LET n == Len(tok) - Sha256Size
       IN
       IF n < 0 THEN Panic                       \* tok[:n]
       ELSE IF ~ConstantTimeEq(Slice(tok, n, Len(tok)), genhmac(Slice(tok, 0, n), signBytes(k)))
       THEN Nil
       ELSE IF Len(tok) - 1 < 8 THEN Panic       \* Uint64(tok[1:])
       ELSE LET ts == TimeUnix(Slice(tok, 1, 9))
            IN
            IF Expired(ts, ttl, now) \/ Skewed(ts, now) THEN Nil
            ELSE IF payOffset > n THEN Panic     \* tok[payOffset : len(tok)-sha256.Size]
            ELSE LET pay == Slice(tok, payOffset, n)
                 IN  IF Len(pay) % BlockSize # 0 THEN Nil
                     ELSE unpad(CBCDecrypt(cryptBytes(k), Slice(tok, ivOffset, ivOffset + BlockSize), pay))

\* b64enc
b64enc(src) == Encode64(src)

\* b64dec: Nil on a decoding error.
b64dec(src) == LET r == Decode64(src) IN IF r.err THEN Nil ELSE r.out

\* Key.EncryptAndSign (the version 0x80 framing): [tok, err].  iv and now
\* stand for the reads of crypto/rand and of the clock.
EncryptAndSign(k, msg, iv, now) ==
  IF k = ZeroKey THEN [tok |-> Nil, err |-> TRUE]
  ELSE [tok |-> Encode64(gen(msg, iv, now, k)), err |-> FALSE]

\* Key.VerifyAndDecrypt without its check of the key.
VerifyAndDecrypt_NoKeyCheck(k, tok, ttl, now) == verify(Decode64(tok).out, ttl, now, k)

\* Key.VerifyAndDecrypt (the version 0x80 framing): the error of Decode is
\* dropped and the n bytes it wrote are verified.
VerifyAndDecrypt(k, tok, ttl, now) ==
  IF k = ZeroKey THEN Nil
  ELSE verify(Decode64(tok).out, ttl, now, k)

\* ------------------------------------------------------------------------
\* fernet.go, the framing without a version byte: base64(hmac | ts | iv |
\* ciphertext), generated and verified on the base64 text.
\* ------------------------------------------------------------------------

\* The fixed-size header binary.Read fills: HMAC, IssuedAt, IV.
headerLen == Sha256Size + 8 + BlockSize

\* The body of gen after its check of the key: the token text.
seal0(src, iv, ts, k) ==
  LET msg == UnixOf(ts) \o iv \o CBCEncrypt(cryptBytes(k), iv, pad(src, BlockSize))
  IN  b64enc(genhmac(msg, signBytes(k)) \o msg)

\* gen: [tok, err]
gen0(src, iv, ts, k) ==
  IF k = ZeroKey THEN [tok |-> Nil, err |-> TRUE]
  ELSE [tok |-> seal0(src, iv, ts, k), err |-> FALSE]

\* verify after the check of the key, on the decoded bytes tok (empty when
\* b64dec returned nil): the message, Nil, or Panic.
verifyDecoded0(tok, ttl, now, k) ==
  IF Len(tok) < headerLen THEN Nil              \* binary.Read: EOF, ErrUnexpectedEOF
  ELSE IF ~ConstantTimeEq(Slice(tok, 0, Sha256Size),
                          genhmac(Slice(tok, Sha256Size, Len(tok)), signBytes(k)))
  THEN Nil
  ELSE IF Expired(TimeUnix(Slice(tok, Sha256Size, Sha256Size + 8)), ttl, now) THEN Nil
  ELSE IF Skewed(TimeUnix(Slice(tok, Sha256Size, Sha256Size + 8)), now) THEN Nil
  ELSE IF (Len(tok) - headerLen) % BlockSize # 0 THEN Nil
  ELSE unpad(CBCDecrypt(cryptBytes(k), Slice(tok, Sha256Size + 8, headerLen),
                        Slice(tok, headerLen, Len(tok))))

\* The bytes b64dec returned, none for nil.
bytesOf(d) == IF d = Nil THEN <<>> ELSE d

\* verify: the message, Nil, or Panic.
verify0(p, ttl, now, k) ==
  IF k = ZeroKey THEN Nil
  ELSE verifyDecoded0(bytesOf(b64dec(p)), ttl, now, k)

\* ------------------------------------------------------------------------
\* The legacy JSON verifier: tokens  base64(ciphertext)|base64(iv)|hex(hmac)
\* whose message is a JSON object with an "issued_at" time.
\* ------------------------------------------------------------------------

\* var pipe = []byte{'|'}
pipe == 124

\* const ivCap = (aes.BlockSize + 2) / 3 * 3
ivCap == ((BlockSize + 2) \div 3) * 3

\* bytes.LastIndex(s, <<c>>): 0-based, -1 if c does not occur.
LastIndex(s, c) ==
  LET at == {i \in 1..Len(s) : s[i] = c}
  IN  IF at = {} THEN -1 ELSE Max(at) - 1

\* bytes.Index from the 0-based position from on: 0-based, Len(s) if none.
IndexFrom(s, c, from) ==
  Min({i \in from..Len(s) : i = Len(s) \/ s[i + 1] = c})

\* bytes.Split(s, <<c>>)
RECURSIVE Split(_, _, _)
Split(s, c, from) ==
  LET i == IndexFrom(s, c, from)
  IN  IF i >= Len(s) THEN << Slice(s, from, Len(s)) >>
      ELSE << Slice(s, from, i) >> \o Split(s, c, i + 1)

\* The value of a hexadecimal digit, 255 for any other byte.
fromHexChar(c) ==
  IF c >= 48 /\ c <= 57 THEN c - 48
  ELSE IF c >= 97 /\ c <= 102 THEN c - 97 + 10
  ELSE IF c >= 65 /\ c <= 70 THEN c - 65 + 10
  ELSE 255

\* hex.Decode(dst, src) with len(dst) = cap: [out, err, panic].  A pair of
\* digits past the end of dst is an index out of range.
hexDecode(src, cap) ==
  LET np == Len(src) \div 2
      okPair(i) == fromHexChar(src[2 * i + 1]) <= 15 /\ fromHexChar(src[2 * i + 2]) <= 15
      \* the first pair that is no two digits, np if there is none
      fb == Min({i \in 0..np : i = np \/ ~okPair(i)})
      byte(i) == fromHexChar(src[2 * i - 1]) * 16 + fromHexChar(src[2 * i])
  IN  IF fb > cap THEN [out |-> [i \in 1..cap |-> byte(i)], err |-> FALSE, panic |-> TRUE]
      ELSE [out |-> [i \in 1..fb |-> byte(i)],
            err |-> fb < np \/ Len(src) % 2 = 1,
            panic |-> FALSE]

\* b64dec(dst, src) with len(dst) = cap: Nil on an error, Panic when Decode
\* writes past the end of dst.
b64decInto(cap, src) ==
  LET r == Decode64(src)
  IN  IF Len(r.out) > cap THEN Panic
      ELSE IF r.err THEN Nil
      ELSE r.out

\* a * 256 on int64.
Shl8(a) == Tail(a) \o <<0>>

\* Key.Encode: the URL-safe base64 text of k.
KeyEncode(k) == Encode64(k)

\* jsonKeys: the two halves of the key's text, 16 bytes for the cipher.
jsonKeys(k) ==
  LET s == KeyEncode(k)
      i == Len(s) \div 2
  IN  [signingKey |-> Slice(s, 0, i), cryptKey |-> Slice(s, i, i + 16)]

\* The number the decimal digits s[from+1..from+n] write, -1 if one of them
\* is no digit.
RECURSIVE Digits(_, _, _)
Digits(s, from, n) ==
  IF n = 0 THEN 0
  ELSE LET c == s[from + n]
           r == Digits(s, from, n - 1)
       IN  IF c < 48 \/ c > 57 \/ r < 0 THEN -1 ELSE 10 * r + (c - 48)

isLeap(y) == y % 4 = 0 /\ (y % 100 # 0 \/ y % 400 = 0)

daysIn(m, y) ==
  IF m = 2 THEN (IF isLeap(y) THEN 29 ELSE 28)
  ELSE IF m \in {4, 6, 9, 11} THEN 30 ELSE 31

RECURSIVE daysBefore(_, _)
daysBefore(m, y) == IF m = 1 THEN 0 ELSE daysIn(m - 1, y) + daysBefore(m - 1, y)

\* Days from January 1 of year 1 to the date.
daysSinceYear1(y, m, d) ==
  365 * (y - 1) + ((y - 1) \div 4) - ((y - 1) \div 100) + ((y - 1) \div 400)
    + daysBefore(m, y) + (d - 1)

\* time.Parse(time.RFC3339, s) as Time.UnmarshalJSON uses it, for texts
\* without a fraction of a second: YYYY-MM-DDTHH:MM:SS and Z or +hh:mm or
\* -hh:mm.  [err, time].
parseRFC3339(s) ==
  LET bad == [err |-> TRUE, time |-> [ext |-> Int64(0), nsec |-> 0]]
  IN
  IF Len(s) # 20 /\ Len(s) # 25 THEN bad
  ELSE
    LET y == Digits(s, 0, 4)
        mo == Digits(s, 5, 2)
        d == Digits(s, 8, 2)
        h == Digits(s, 11, 2)
        mi == Digits(s, 14, 2)
        sec == Digits(s, 17, 2)
        zh == IF Len(s) = 25 THEN Digits(s, 20, 2) ELSE 0
        zm == IF Len(s) = 25 THEN Digits(s, 23, 2) ELSE 0
        sign == IF Len(s) = 25 /\ s[20] = 45 THEN -1 ELSE 1
        off == sign * (zh * 3600 + zm * 60)
        shape == /\ s[5] = 45 /\ s[8] = 45 /\ s[11] = 84 /\ s[14] = 58 /\ s[17] = 58
                 /\ IF Len(s) = 20 THEN s[20] = 90
                    ELSE s[20] \in {43, 45} /\ s[23] = 58
        range == /\ y >= 0 /\ mo >= 1 /\ mo <= 12 /\ d >= 1 /\ d <= daysIn(mo, y)
                 /\ h >= 0 /\ h < 24 /\ mi >= 0 /\ mi < 60 /\ sec >= 0 /\ sec < 60
                 /\ zh >= 0 /\ zh < 24 /\ zm >= 0 /\ zm < 60
    IN
    IF ~shape \/ ~range THEN bad
    ELSE LET days == daysSinceYear1(y, mo, d)
             \* days * 86400 = days * 337 * 256 + days * 128
             ext == Add64(Add64(Shl8(Int64(days * 337)), Int64(days * 128)),
                          Int64(h * 3600 + mi * 60 + sec - off))
         IN  [err |-> FALSE, time |-> [ext |-> ext, nsec |-> 0]]

\* The members of a JSON object whose names and values are strings without
\* escapes, written without white space, from the 0-based position i (just
\* after '{' or ','): [err, found, value], value being the last "issued_at".
RECURSIVE jsonMembers(_, _, _, _)
jsonMembers(s, i, found, value) ==
  LET bad == [err |-> TRUE, found |-> FALSE, value |-> <<>>]
  IN
  IF i >= Len(s) \/ s[i + 1] # 34 THEN bad
  ELSE
    LET ke == IndexFrom(s, 34, i + 1)          \* the quote closing the name
    IN
    IF ke + 2 >= Len(s) \/ s[ke + 2] # 58 \/ s[ke + 3] # 34 THEN bad
    ELSE
      LET ve == IndexFrom(s, 34, ke + 3)       \* the quote closing the value
          name == Slice(s, i + 1, ke)
          val == Slice(s, ke + 3, ve)
          isTs == name = <<105, 115, 115, 117, 101, 100, 95, 97, 116>>
          f2 == found \/ isTs
          v2 == IF isTs THEN val ELSE value
      IN
      IF ve + 1 >= Len(s) \/ Contains(name, 92) \/ Contains(val, 92) THEN bad
      ELSE IF s[ve + 2] = 125 THEN
        (IF ve + 2 = Len(s) THEN [err |-> FALSE, found |-> f2, value |-> v2] ELSE bad)
      ELSE IF s[ve + 2] = 44 THEN jsonMembers(s, ve + 2, f2, v2)
      ELSE bad

\* json.Unmarshal(msg, &ts) for ts struct{ Time time.Time `json:"issued_at"` }:
\* [err, time].  Without the member, ts.Time stays the zero Time.
jsonUnmarshal(msg) ==
  LET zero == [ext |-> Int64(0), nsec |-> 0]
      bad == [err |-> TRUE, time |-> zero]
  IN
  IF Len(msg) < 2 \/ msg[1] # 123 THEN bad
  ELSE IF msg = <<123, 125>> THEN [err |-> FALSE, time |-> zero]
  ELSE LET m == jsonMembers(msg, 1, FALSE, <<>>)
       IN  IF m.err THEN bad
           ELSE IF ~m.found THEN [err |-> FALSE, time |-> zero]
           ELSE parseRFC3339(m.value)

\* jsonVerifyIssued with the clock-skew test of verify added.
jsonVerifyIssued_Skew(msg, ttl, now) ==
  IF msg = Panic THEN Panic
  ELSE IF msg = Nil THEN Nil
  ELSE IF jsonUnmarshal(msg).err THEN Nil
  ELSE IF After(now, TimeAdd(jsonUnmarshal(msg).time, ttl)) THEN Nil
  ELSE IF Skewed(jsonUnmarshal(msg).time, now) THEN Nil
  ELSE msg

\* jsonVerify from the decrypted message on: the unmarshalling of the time
\* and the one check made of it.
jsonVerifyIssued(msg, ttl, now) ==
  IF msg = Panic THEN Panic
  ELSE IF msg = Nil THEN Nil
  ELSE IF jsonUnmarshal(msg).err THEN Nil
  ELSE IF After(now, TimeAdd(jsonUnmarshal(msg).time, ttl)) THEN Nil
  ELSE msg

\* jsonVerify on the two decoded fields p and iv (each the bytes, Nil, or
\* Panic): the decrypted and unpadded message, Nil, or Panic.
jsonVerifyDecrypt(p, iv, cryptKey) ==
  IF p = Panic THEN Panic
  ELSE IF p = Nil THEN Nil
  ELSE IF iv = Panic THEN Panic
  ELSE IF iv = Nil THEN Nil
  ELSE IF Len(p) % BlockSize # 0 \/ Len(iv) # BlockSize THEN Nil
  ELSE unpad(CBCDecrypt(cryptKey, iv, p))

\* jsonVerify on s, the fields split at '|'.
jsonVerifyFields(s, ttl, now, keys) ==
  IF Len(s) # 2 THEN Nil
  ELSE jsonVerifyIssued(jsonVerifyDecrypt(b64decInto(DecodedLen(Len(s[1])), s[1]),
                                          b64decInto(ivCap, s[2]),
                                          keys.cryptKey),
                        ttl, now)

\* jsonVerify on the fields and on h, the outcome of hex.Decode of the MAC.
jsonVerifyMac(fields, h, ttl, now, keys) ==
  IF h.panic THEN Panic
  ELSE IF h.err \/ Len(h.out) # Sha256Size THEN Nil
  \* key and message are reversed on purpose
  ELSE IF ~ConstantTimeEq(h.out, genhmac(keys.signingKey, fields)) THEN Nil
  ELSE jsonVerifyFields(Split(fields, pipe, 0), ttl, now, keys)

\* jsonVerify: the message, Nil, or Panic.
jsonVerify(tok, ttl, now, k) ==
  IF k = ZeroKey THEN Nil
  ELSE IF LastIndex(tok, pipe) = -1 THEN Nil
  ELSE jsonVerifyMac(Slice(tok, 0, LastIndex(tok, pipe)),
                     hexDecode(Slice(tok, LastIndex(tok, pipe) + 1, Len(tok)), Sha256Size),
                     ttl, now, jsonKeys(k))

\* The token the legacy producer makes of msg (a test's token; the package
\* itself only reads them).
jsonToken(msg, iv, k) ==
  LET keys == jsonKeys(k)
      fields == b64enc(CBCEncrypt(keys.cryptKey, iv, pad(msg, BlockSize)))
                  \o <<pipe>> \o b64enc(iv)
      mac == genhmac(keys.signingKey, fields)
      hexdigit(v) == IF v < 10 THEN 48 + v ELSE 97 + (v - 10)
  IN  fields \o <<pipe>>
        \o [j \in 1..(2 * Sha256Size) |->
              IF j % 2 = 1 THEN hexdigit(mac[(j + 1) \div 2] \div 16)
              ELSE hexdigit(mac[j \div 2] % 16)]

\* Key.Verify and, with the same body, Key.VerifyAndDecrypt of the version
\* that reads both framings: which verifier runs, and its result.
VerifyRoute(tok) == IF ~Contains(tok, pipe) THEN "json" ELSE "binary"

Verify(k, tok, ttl, now) ==
  IF VerifyRoute(tok) = "json" THEN jsonVerify(tok, ttl, now, k)
  ELSE verify0(tok, ttl, now, k)

\* ------------------------------------------------------------------------
\* Key texts
\* ------------------------------------------------------------------------

\* DecodeKey: [key, err].
DecodeKey(s) ==
  LET r == Decode64(s)                       \* DecodeString
  IN  IF r.err THEN [key |-> Nil, err |-> TRUE]
      ELSE IF Len(r.out) # KeyLen THEN [key |-> Nil, err |-> TRUE]
      ELSE [key |-> r.out, err |-> FALSE]

\* DecodeKey of key.go, which decodes into a buffer of (len(k)+2)/3*3 bytes
\* after comparing DecodedLen(len(s)) with its size: [key, err].
DecodeKey0(s) ==
  LET bufLen == ((KeyLen + 2) \div 3) * 3
      r == Decode64(s)
  IN  IF DecodedLen(Len(s)) # bufLen THEN [key |-> Nil, err |-> TRUE]
      ELSE IF r.err THEN [key |-> Nil, err |-> TRUE]
      ELSE IF Len(r.out) # KeyLen THEN [key |-> Nil, err |-> TRUE]
      ELSE [key |-> SubSeq(r.out, 1, KeyLen), err |-> FALSE]

\* ------------------------------------------------------------------------
\* Verification against a list of keys
\* ------------------------------------------------------------------------

\* VerifyAndDecrypt(tok, ttl, keys): each key in order, the first result
\* that is not nil.
RECURSIVE verifyWithKeys(_, _, _, _)
verifyWithKeys(tok, ttl, now, keys) ==
  IF keys = <<>> THEN Nil
  ELSE LET m == VerifyAndDecrypt(Head(keys), tok, ttl, now)
       IN  IF m # Nil THEN m ELSE verifyWithKeys(tok, ttl, now, Tail(keys))

\* ------------------------------------------------------------------------
\* Inputs
\* ------------------------------------------------------------------------

\* The longest message the model encrypts.
MaxMsgLen == 17

\* The number of initialization vectors the model draws from.
NumIVs == 1

\* The key of the tests, cw_0x689RpI-jtRR7oE8h_eQsKImvJapLeSbXpwF4e4=
K1 ==
  << 115, 15, 244, 199, 175, 61, 70, 146, 62, 142, 212, 81, 238, 129, 60, 135,
     247, 144, 176, 162, 38, 188, 150, 169, 45, 228, 155, 94, 156, 5, 225, 238 >>

\* A second key, and a third with the signing half of K1 and the encryption
\* half of K2.
K2 == [i \in 1..KeyLen |-> (37 * i + 11) % 256]
K3 == signBytes(K1) \o cryptBytes(K2)

\* The message of n bytes: "hello" for 5, else a fixed pattern.
MsgOf(n) ==
  IF n = 5 THEN <<104, 101, 108, 108, 111>> ELSE [i \in 1..n |-> (i * 16) % 256]

Msgs == {MsgOf(n) : n \in {0, 5, BlockSize, MaxMsgLen}}

IVs == {[i \in 1..BlockSize |-> (i - 1 + 16 * j) % 256] : j \in 0..(NumIVs - 1)}

\* 1985-10-26 01:20:00 -0700, the time of the tests, in Unix seconds.
T0sec == 499162800
T0 == TimeUnix(Int64(T0sec))

\* Half a second, in nanoseconds.
half == Second \div 2

\* The largest Duration: 2^63 - 1 nanoseconds.
MaxDuration == [sec |-> <<0, 0, 0, 2, 37, 193, 125, 4>>, nsec |-> 854775807]

\* The times the clock gives at generation.
GenTimes == {T0, TimeAdd(T0, Dur(0, half))}

\* The times-to-live a caller passes.
TTLs == {Dur(0, 0), Dur(0, half), Dur(1, 0), Dur(60, 0), MaxDuration}

\* The times the clock gives at verification, as offsets from T0.
Offsets ==
  { Dur(-62, half), Dur(-61, 0), Dur(-61, half), Dur(-60, 0), Dur(0, 0), Dur(0, 1),
    Dur(0, half), Dur(1, 0), Dur(1, half), Dur(2, 0), Dur(60, 0), Dur(60, half),
    Dur(61, 0), Dur(61, half) }

Nows == {TimeAdd(T0, d) : d \in Offsets}

\* The 8-byte timestamps of crafted tokens: around T0, and the ends of the
\* range of int64 and of the seconds a Time holds.
Stamps ==
  {Int64(T0sec + d) : d \in {59, 60, 61, 62, 121}}
    \cup { Int64(0), Int64(-1), MaxInt64, MinInt64,
           Add64(MaxInt64, Neg64(unixToInternal)),
           Add64(Add64(MaxInt64, Neg64(unixToInternal)), Int64(1)) }

\* ------------------------------------------------------------------------
\* The state: the last call, its arguments and what it returned.
\* ------------------------------------------------------------------------

VARIABLES
  op,      \* the last call
  origin,  \* how the token at hand came about
  key,     \* the key argument
  keys,    \* the key list argument
  msg,     \* the message that was encrypted
  genAt,   \* the time that was stamped
  tok,     \* the token (text) at hand
  ttl,     \* the time-to-live argument
  now,     \* the clock at verification
  res,     \* the []byte result: bytes, Nil or Panic
  err,     \* the error result
  route,   \* the verifier Key.Verify chose
  steps,   \* the statements of verify control has reached, in order
  buf      \* the token bytes verify works on, decrypted in place

vars == <<op, origin, key, keys, msg, genAt, tok, ttl, now, res, err, route, steps, buf>>

Init ==
  /\ op = "idle"
  /\ origin = "none"
  /\ key = ZeroKey
  /\ keys = <<>>
  /\ msg = <<>>
  /\ genAt = T0
  /\ tok = <<>>
  /\ ttl = Dur(0, 0)
  /\ now = T0
  /\ res = Nil
  /\ err = FALSE
  /\ route = "none"
  /\ steps = <<>>
  /\ buf = <<>>

\* k.EncryptAndSign(m), the clock at t.
DoEncryptAndSign ==
  /\ op = "idle"
  /\ \E k \in {ZeroKey, K1, K2}, m \in Msgs, iv \in IVs, t \in GenTimes :
       LET r == EncryptAndSign(k, m, iv, t)
       IN  /\ op' = "EncryptAndSign"
           /\ origin' = "EncryptAndSign"
           /\ key' = k
           /\ msg' = m
           /\ genAt' = t
           /\ tok' = r.tok
           /\ err' = r.err
  /\ UNCHANGED <<steps, buf, keys, ttl, now, res, route>>

\* A token made with gen by a holder of the key k, the all-zero key included,
\* with any 8 bytes as its timestamp.
DoForge ==
  /\ op = "idle"
  /\ \E k \in {ZeroKey, K1}, ts \in Stamps, iv \in IVs :
       /\ op' = "gen"
       /\ origin' = "gen"
       /\ key' = k
       /\ msg' = MsgOf(5)
       /\ genAt' = TimeUnix(ts)
       /\ tok' = Encode64(gen(MsgOf(5), iv, TimeUnix(ts), k))
  /\ UNCHANGED <<steps, buf, keys, ttl, now, res, err, route>>

\* k.VerifyAndDecrypt(tok, ttl), the clock at n, with the key that made tok.
DoVerifyAndDecrypt ==
  /\ op \in {"EncryptAndSign", "gen"}
  /\ ~err
  /\ \E d \in TTLs, n \in Nows :
       /\ ttl' = d
       /\ now' = n
       /\ res' = VerifyAndDecrypt(key, tok, d, n)
  /\ op' = "VerifyAndDecrypt"
  /\ UNCHANGED <<steps, buf, origin, key, keys, msg, genAt, tok, err, route>>

\* The JSON message with the given "issued_at" text.
JsonMsg(issued) ==
  <<123, 34, 105, 115, 115, 117, 101, 100, 95, 97, 116, 34, 58, 34>> \o issued \o <<34, 125>>

\* 1985-10-26T01:20:00-07:00, which is T0
IssuedT0 ==
  <<49, 57, 56, 53, 45, 49, 48, 45, 50, 54, 84, 48, 49, 58, 50, 48, 58, 48, 48,
    45, 48, 55, 58, 48, 48>>

\* 2013-01-01T16:28:21Z
Issued2013 ==
  <<50, 48, 49, 51, 45, 48, 49, 45, 48, 49, 84, 49, 54, 58, 50, 56, 58, 50, 49, 90>>

\* 9999-12-31T23:59:59Z
Issued9999 ==
  <<57, 57, 57, 57, 45, 49, 50, 45, 51, 49, 84, 50, 51, 58, 53, 57, 58, 53, 57, 90>>

\* The JSON message with a member before "issued_at", as the tests' is.
JsonMsgWithId(issued) ==
  <<123, 34, 105, 100, 34, 58, 34, 49, 50, 51, 34, 44>> \o Tail(JsonMsg(issued))

\* The clock and the ttl of the calls on the older framings.
FewNows ==
  {TimeAdd(T0, d) : d \in {Dur(-61, 0), Dur(0, 0), Dur(1, 0), Dur(60, 0), Dur(60, 1),
                           Dur(60, half), Dur(61, 0)}}
FewTTLs == {Dur(0, 0), Dur(60, 0), MaxDuration}

\* gen of the framing without a version byte.
DoGen0 ==
  /\ op = "idle"
  /\ \E k \in {ZeroKey, K1}, m \in {MsgOf(5), MsgOf(BlockSize)}, iv \in IVs, t \in GenTimes :
       LET r == gen0(m, iv, t, k)
       IN  /\ op' = "gen0"
           /\ origin' = "gen0"
           /\ key' = k
           /\ msg' = m
           /\ genAt' = t
           /\ tok' = r.tok
           /\ err' = r.err
  /\ UNCHANGED <<steps, buf, keys, ttl, now, res, route>>

\* A token of that framing encrypted and tagged under the all-zero key, as
\* the tests hold one.
DoSeal0 ==
  /\ op = "idle"
  /\ \E iv \in IVs :
       /\ op' = "seal0"
       /\ origin' = "seal0"
       /\ key' = ZeroKey
       /\ msg' = MsgOf(5)
       /\ genAt' = T0
       /\ tok' = seal0(MsgOf(5), iv, T0, ZeroKey)
  /\ UNCHANGED <<steps, buf, keys, ttl, now, res, err, route>>

\* verify of the framing without a version byte.
DoVerify0 ==
  /\ op \in {"gen0", "seal0"}
  /\ ~err
  /\ \E d \in FewTTLs, n \in FewNows :
       /\ ttl' = d
       /\ now' = n
       /\ res' = verify0(tok, d, n, key)
  /\ op' = "verify0"
  /\ UNCHANGED <<steps, buf, origin, key, keys, msg, genAt, tok, err, route>>

\* A token of the legacy producer.
DoJsonToken ==
  /\ op = "idle"
  /\ \E k \in {ZeroKey, K1}, issued \in {IssuedT0, Issued2013, Issued9999}, iv \in IVs,
        m \in {"JsonMsg", "JsonMsgWithId"} :
       /\ op' = "jsonToken"
       /\ origin' = "json"
       /\ key' = k
       /\ msg' = (IF m = "JsonMsg" THEN JsonMsg(issued) ELSE JsonMsgWithId(issued))
       /\ genAt' = parseRFC3339(issued).time
       /\ tok' = jsonToken(IF m = "JsonMsg" THEN JsonMsg(issued) ELSE JsonMsgWithId(issued),
                           iv, k)
  /\ UNCHANGED <<steps, buf, keys, ttl, now, res, err, route>>

\* jsonVerify
DoJsonVerify ==
  /\ op = "jsonToken"
  /\ \E d \in FewTTLs, n \in FewNows :
       /\ ttl' = d
       /\ now' = n
       /\ res' = jsonVerify(tok, d, n, key)
  /\ op' = "jsonVerify"
  /\ UNCHANGED <<steps, buf, origin, key, keys, msg, genAt, tok, err, route>>

\* k.Verify(tok, ttl), the entry point that reads both framings.
DoVerify ==
  /\ op \in {"gen0", "jsonToken"}
  /\ ~err
  /\ \E d \in FewTTLs, n \in FewNows :
       /\ ttl' = d
       /\ now' = n
       /\ res' = Verify(key, tok, d, n)
  /\ route' = VerifyRoute(tok)
  /\ op' = "Verify"
  /\ UNCHANGED <<steps, buf, origin, key, keys, msg, genAt, tok, err>>

\* s with the byte at the 0-based position i replaced by c.
WithByte(s, i, c) == [s EXCEPT ![i + 1] = c]

\* p with bit b of the byte at the 0-based position i flipped.
FlipBit(p, i, b) == WithByte(p, i, XorByte(p[i + 1], 2 ^ b))

\* The lengths of the short binary tokens.
ShortLens == {0, 1, 2, 8, 31, 32, 33, 41, 56}

\* A binary token of n < 57 bytes that starts with the byte first: the head
\* of a well-formed frame stamped T0 followed by its tag under k when tagged
\* and n >= 32, else first followed by zeros.
ShortTok(n, first, tagged, k) ==
  IF tagged /\ n >= Sha256Size
  THEN Slice(<<first>> \o Int64(T0sec) \o Repeat(0, BlockSize), 0, n - Sha256Size)
         \o genhmac(Slice(<<first>> \o Int64(T0sec) \o Repeat(0, BlockSize), 0, n - Sha256Size),
                    signBytes(k))
  ELSE Slice(<<first>> \o Repeat(0, overhead), 0, n)

\* k.VerifyAndDecrypt(tok, ttl) on the text of a short token.
DoVerifyShort ==
  /\ op = "idle"
  /\ \E k \in {ZeroKey, K1}, n \in ShortLens, first \in {version, 0}, tagged \in BOOLEAN :
       /\ key' = k
       /\ tok' = Encode64(ShortTok(n, first, tagged, K1))
       /\ res' = VerifyAndDecrypt(k, Encode64(ShortTok(n, first, tagged, K1)), Dur(60, 0), T0)
  /\ op' = "VerifyAndDecrypt"
  /\ origin' = "short"
  /\ ttl' = Dur(60, 0)
  /\ UNCHANGED <<steps, buf, keys, msg, genAt, now, err, route>>

\* The texts a token text s is corrupted to: bytes outside the alphabet
\* after it, before it and inside it, a digit too many, and a line break
\* (which the decoder skips).
Corruptions(s) ==
  { s \o <<37>>, s \o <<37, 37, 37, 37>>, s \o <<65>>, <<37>> \o s,
    WithByte(s, 10, 37), WithByte(s, 60, 37), s \o <<10>> }

\* k.VerifyAndDecrypt(tok, ttl) on a corrupted text of the token at hand, at
\* the time of its generation.
DoVerifyCorrupt ==
  /\ op = "EncryptAndSign"
  /\ ~err
  /\ \E c \in Corruptions(tok) :
       /\ tok' = c
       /\ res' = VerifyAndDecrypt(key, c, Dur(60, 0), genAt)
  /\ op' = "VerifyAndDecrypt"
  /\ origin' = "corrupt"
  /\ ttl' = Dur(60, 0)
  /\ now' = genAt
  /\ UNCHANGED <<steps, buf, key, keys, msg, genAt, err, route>>

\* The 0-based positions of the bytes tampered with in a token of n bytes:
\* the version, the ends of the timestamp, of the IV, of the ciphertext and
\* of the tag.
TamperAt(n) ==
  {0, tsOffset, ivOffset - 1, ivOffset, payOffset - 1, payOffset,
   n - Sha256Size - 1, n - Sha256Size, n - 1}

TamperBits == {0, 3, 7}

\* The token bytes p with one bit flipped, as text.
Tampered(p, i, b) == Encode64(FlipBit(p, i, b))

\* k.VerifyAndDecrypt(tok, ttl) on the token at hand with one bit flipped, at
\* the time of its generation.
DoVerifyTampered ==
  /\ op = "EncryptAndSign"
  /\ ~err
  /\ \E i \in TamperAt(Len(Decode64(tok).out)), b \in TamperBits :
       /\ tok' = Tampered(Decode64(tok).out, i, b)
       /\ res' = VerifyAndDecrypt(key, Tampered(Decode64(tok).out, i, b), Dur(60, 0), genAt)
  /\ op' = "VerifyAndDecrypt"
  /\ origin' = "tamper"
  /\ ttl' = Dur(60, 0)
  /\ now' = genAt
  /\ UNCHANGED <<steps, buf, key, keys, msg, genAt, err, route>>

\* The key lists a caller passes.
KeyLists ==
  { <<>>, <<K1>>, <<K2>>, <<K1, K2>>, <<K2, K1>>, <<K3>>, <<K3, K1>>, <<ZeroKey, K2>> }

\* VerifyAndDecrypt(tok, ttl, keys) on the token at hand, at the time of its
\* generation or after its expiry.
DoVerifyWithKeys ==
  /\ op = "EncryptAndSign"
  /\ ~err
  /\ \E ks \in KeyLists, n \in {genAt, TimeAdd(genAt, Dur(61, half))} :
       /\ keys' = ks
       /\ now' = n
       /\ res' = verifyWithKeys(tok, Dur(60, 0), n, ks)
  /\ op' = "verifyWithKeys"
  /\ ttl' = Dur(60, 0)
  /\ UNCHANGED <<steps, buf, origin, key, msg, genAt, tok, err, route>>

\* The key texts a caller passes: the encodings of keys, of 31 and 33 bytes
\* and of nothing, and the text of K1 with a byte outside the alphabet, with
\* its padding cut, with line breaks after it and before it, with a digit
\* after it, and with the unused bits of its last digit set.
KeyTexts ==
  {Encode64(k) : k \in {K1, K2, K3, ZeroKey}}
    \cup { Encode64(Repeat(1, KeyLen - 1)), Encode64(Repeat(1, KeyLen + 1)), <<>>,
           WithByte(Encode64(K1), 10, 37),
           SubSeq(Encode64(K1), 1, 43),
           Encode64(K1) \o <<10>>,
           Encode64(K1) \o <<13, 10>>,
           Encode64(K1) \o <<10, 10, 10, 10>>,
           <<10>> \o Encode64(K1),
           Encode64(K1) \o <<65>>,
           WithByte(Encode64(K1), 42, encodeURL(decodeMap(Encode64(K1)[43]) + 1)) }

\* DecodeKey(s), the version that decodes with DecodeString.
DoDecodeKey ==
  /\ op = "idle"
  /\ \E s \in KeyTexts :
       /\ tok' = s
       /\ res' = DecodeKey(s).key
       /\ err' = DecodeKey(s).err
  /\ op' = "DecodeKey"
  /\ UNCHANGED <<steps, buf, origin, key, keys, msg, genAt, ttl, now, route>>

\* DecodeKey(s), the version that decodes into a fixed buffer.
DoDecodeKey0 ==
  /\ op = "idle"
  /\ \E s \in KeyTexts :
       /\ tok' = s
       /\ res' = DecodeKey0(s).key
       /\ err' = DecodeKey0(s).err
  /\ op' = "DecodeKey0"
  /\ UNCHANGED <<steps, buf, origin, key, keys, msg, genAt, ttl, now, route>>

\* The longest message the model pads.
MaxPadLen == 33

\* The messages padded: every length up to MaxPadLen, with bytes that are
\* no padding and with bytes that look like padding (0, 1 and 16).
PadMsgs ==
  {MsgOf(n) : n \in 0..MaxPadLen}
    \cup {Repeat(c, n) : c \in {0, 1, BlockSize}, n \in {1, BlockSize - 1, BlockSize, MaxPadLen}}

\* pad(m, aes.BlockSize) and unpad of what it returned.
DoPad ==
  /\ op = "idle"
  /\ \E m \in PadMsgs :
       /\ msg' = m
       /\ tok' = pad(m, BlockSize)
       /\ res' = unpad(pad(m, BlockSize))
  /\ op' = "pad"
  /\ UNCHANGED <<steps, buf, origin, key, keys, genAt, ttl, now, err, route>>

\* Decrypted payloads: well padded ones, and ones whose last byte c is 0,
\* is greater than 16, is greater than the length, or is not the value of
\* all the last c bytes.
Payloads ==
  { pad(MsgOf(5), BlockSize),
    Repeat(BlockSize, BlockSize),
    MsgOf(BlockSize),                                      \* last byte 0
    Repeat(7, BlockSize) \o Repeat(0, BlockSize),          \* last byte 0
    Repeat(2 * BlockSize, 2 * BlockSize),                  \* 32 bytes, each 32
    Repeat(7, 2 * BlockSize - 1) \o Repeat(BlockSize + 1, BlockSize + 1),
    Repeat(BlockSize + 1, BlockSize),                      \* c greater than the length
    Repeat(7, BlockSize - 1) \o <<2>>,                     \* not all of the last c are c
    Repeat(7, BlockSize - 3) \o <<3, 4, 3>> }

\* unpad(p)
DoUnpad ==
  /\ op = "idle"
  /\ \E p \in Payloads :
       /\ msg' = p
       /\ res' = unpad(p)
  /\ op' = "unpad"
  /\ UNCHANGED <<steps, buf, origin, key, keys, genAt, tok, ttl, now, err, route>>

\* k.VerifyAndDecrypt(tok, ttl) on a token with a valid tag and a current
\* timestamp whose ciphertext decrypts to the payload p.
DoVerifyPayload ==
  /\ op = "idle"
  /\ \E p \in Payloads, iv \in IVs :
       /\ msg' = p
       /\ tok' = Encode64(genPayload(p, iv, T0, K1))
       /\ res' = VerifyAndDecrypt(K1, Encode64(genPayload(p, iv, T0, K1)), Dur(60, 0), T0)
  /\ op' = "VerifyAndDecrypt"
  /\ origin' = "payload"
  /\ key' = K1
  /\ ttl' = Dur(60, 0)
  /\ UNCHANGED <<steps, buf, keys, genAt, now, err, route>>

\* The ciphertext lengths that are no positive multiple of 16.
CipherLens == {0, 1, BlockSize - 1, BlockSize + 1, 2 * BlockSize - 1, 2 * BlockSize + 1}

\* The version 0x80 token stamped T0 whose ciphertext is n bytes, with its
\* tag under k.
TokCipher(n, iv, k) ==
  (<<version>> \o Int64(T0sec) \o iv \o Repeat(9, n))
    \o genhmac(<<version>> \o Int64(T0sec) \o iv \o Repeat(9, n), signBytes(k))

\* The same for the framing without a version byte, as text.
TokCipher0(n, iv, k) ==
  b64enc(genhmac(Int64(T0sec) \o iv \o Repeat(9, n), signBytes(k))
           \o (Int64(T0sec) \o iv \o Repeat(9, n)))

\* k.VerifyAndDecrypt(tok, ttl) on a token with a valid tag and a current
\* timestamp whose ciphertext is no positive number of blocks.
DoVerifyCipher ==
  /\ op = "idle"
  /\ \E n \in CipherLens, iv \in IVs :
       /\ tok' = Encode64(TokCipher(n, iv, K1))
       /\ res' = VerifyAndDecrypt(K1, Encode64(TokCipher(n, iv, K1)), Dur(60, 0), T0)
  /\ op' = "VerifyAndDecrypt"
  /\ origin' = "cipher"
  /\ key' = K1
  /\ ttl' = Dur(60, 0)
  /\ UNCHANGED <<steps, buf, keys, msg, genAt, now, err, route>>

\* verify of the framing without a version byte on such a token.
DoVerifyCipher0 ==
  /\ op = "idle"
  /\ \E n \in CipherLens, iv \in IVs :
       /\ tok' = TokCipher0(n, iv, K1)
       /\ res' = verify0(TokCipher0(n, iv, K1), Dur(60, 0), T0, K1)
  /\ op' = "verify0"
  /\ origin' = "cipher0"
  /\ key' = K1
  /\ ttl' = Dur(60, 0)
  /\ UNCHANGED <<steps, buf, keys, msg, genAt, now, err, route>>

\* ------------------------------------------------------------------------
\* verify, statement by statement
\* ------------------------------------------------------------------------

\* The order of the statements of verify with the checks after the
\* decryption: decrypt, then the tag, the timestamp, the length, unpad.
nextStep_DecryptFirst(s, ok) ==
  IF ~ok THEN "return"
  ELSE CASE s = "version" -> "decrypt"
         [] s = "header" -> "decrypt"
         [] s = "decrypt" -> "hmac"
         [] s = "hmac" -> "time"
         [] s = "time" -> "len"
         [] s = "len" -> "unpad"
         [] OTHER -> "return"

\* The order of the statements of verify: the statement control reaches
\* after s, ok telling whether the test of s let it through.  "version" is
\* the first test of the version 0x80 framing, "header" the key test, b64dec
\* and binary.Read of the framing without a version byte.
nextStep(s, ok) ==
  IF ~ok THEN "return"
  ELSE CASE s = "version" -> "hmac"
         [] s = "header" -> "hmac"
         [] s = "hmac" -> "time"
         [] s = "time" -> "len"
         [] s = "len" -> "decrypt"
         [] s = "decrypt" -> "unpad"
         [] OTHER -> "return"

\* The statement control is at.
pc == IF steps = <<>> THEN "none" ELSE steps[Len(steps)]

\* The clocks of the calls followed statement by statement: within the ttl
\* of 60s, past it, and more than maxClockSkew before the timestamp.
StepNows == {TimeAdd(T0, d) : d \in {Dur(0, 0), Dur(61, 0), Dur(-61, 0)}}

\* The byte offsets at which a token is altered: the first byte, the
\* timestamp, the ciphertext, the last byte.
StepFlips(hdr, n) == {0, hdr - BlockSize - 1, hdr, n - 1}

\* The tokens (bytes) verify is followed on, version 0x80 framing: a token of
\* gen under K1, the same with one bit flipped, a token under another key,
\* tokens with a valid tag around no whole blocks, no block and a block that
\* is no padding, and tokens shorter than a tag.
StepToks ==
  LET good == gen(MsgOf(5), CHOOSE iv \in IVs : TRUE, T0, K1)
  IN  {good, gen(MsgOf(5), CHOOSE iv \in IVs : TRUE, T0, K2)}
        \cup {FlipBit(good, i, 0) : i \in StepFlips(payOffset, Len(good))}
        \cup {TokCipher(n, CHOOSE iv \in IVs : TRUE, K1) : n \in {0, BlockSize + 1}}
        \cup {genPayload(Repeat(7, BlockSize - 1) \o <<2>>, CHOOSE iv \in IVs : TRUE, T0, K1)}
        \cup {<<>>, <<version>>}

\* The same for the framing without a version byte, as text.
StepToks0 ==
  LET good == seal0(MsgOf(5), CHOOSE iv \in IVs : TRUE, T0, K1)
  IN  {good, seal0(MsgOf(5), CHOOSE iv \in IVs : TRUE, T0, K2)}
        \cup {b64enc(FlipBit(b64dec(good), i, 0)) : i \in StepFlips(headerLen, Len(b64dec(good)))}
        \cup {TokCipher0(n, CHOOSE iv \in IVs : TRUE, K1) : n \in {0, BlockSize + 1}}
        \cup {b64enc(<<1, 2, 3>>), <<padChar>>}

\* verify(nil, tok, ttl, now, k) is entered.
DoVerifyCall ==
  /\ op = "idle"
  /\ \E t \in StepToks, n \in StepNows :
       /\ tok' = Encode64(t)
       /\ buf' = t
       /\ now' = n
  /\ op' = "verify"
  /\ origin' = "steps"
  /\ key' = K1
  /\ msg' = MsgOf(5)
  /\ genAt' = T0
  /\ ttl' = Dur(60, 0)
  /\ res' = Nil
  /\ steps' = <<"version">>
  /\ UNCHANGED <<keys, err, route>>

\* if len(tok) < 1 || tok[0] != version { return nil }
VerifyVersion ==
  /\ origin = "steps" /\ pc = "version"
  /\ steps' = Append(steps, nextStep("version", ~(Len(buf) < 1 \/ buf[1] # version)))
  /\ UNCHANGED <<op, origin, key, keys, msg, genAt, tok, ttl, now, res, err, route, buf>>

\* genhmac over tok[:n] and the comparison with tok[n:]
VerifyHmac ==
  /\ origin = "steps" /\ pc = "hmac"
  /\ IF Len(buf) < Sha256Size
     THEN /\ res' = Panic                        \* tok[:n]
          /\ steps' = Append(steps, "return")
     ELSE /\ res' = res
          /\ steps' = Append(steps,
               nextStep("hmac",
                 ConstantTimeEq(Slice(buf, Len(buf) - Sha256Size, Len(buf)),
                                genhmac(Slice(buf, 0, Len(buf) - Sha256Size), signBytes(key)))))
  /\ UNCHANGED <<op, origin, key, keys, msg, genAt, tok, ttl, now, err, route, buf>>

\* ts := time.Unix(...) and the two conditions on it
VerifyTime ==
  /\ origin = "steps" /\ pc = "time"
  /\ IF Len(buf) - 1 < 8
     THEN /\ res' = Panic                        \* Uint64(tok[1:])
          /\ steps' = Append(steps, "return")
     ELSE /\ res' = res
          /\ steps' = Append(steps,
               nextStep("time", ~(\/ Expired(TimeUnix(Slice(buf, 1, 9)), ttl, now)
                                  \/ Skewed(TimeUnix(Slice(buf, 1, 9)), now))))
  /\ UNCHANGED <<op, origin, key, keys, msg, genAt, tok, ttl, now, err, route, buf>>

\* pay := tok[payOffset : len(tok)-sha256.Size] and the test of its length
VerifyLen ==
  /\ origin = "steps" /\ pc = "len"
  /\ IF payOffset > Len(buf) - Sha256Size
     THEN /\ res' = Panic
          /\ steps' = Append(steps, "return")
     ELSE /\ res' = res
          /\ steps' = Append(steps,
               nextStep("len", (Len(buf) - Sha256Size - payOffset) % BlockSize = 0))
  /\ UNCHANGED <<op, origin, key, keys, msg, genAt, tok, ttl, now, err, route, buf>>

\* CryptBlocks(pay, pay): pay is a slice of tok, which is decrypted in place.
\* CryptBlocks panics on an input that is no whole number of blocks.
VerifyDecrypt ==
  /\ origin = "steps" /\ pc = "decrypt"
  /\ IF \/ payOffset > Len(buf) - Sha256Size
        \/ (Len(buf) - Sha256Size - payOffset) % BlockSize # 0
     THEN /\ res' = Panic
          /\ buf' = buf
          /\ steps' = Append(steps, "return")
     ELSE /\ res' = res
          /\ buf' = Slice(buf, 0, payOffset)
                      \o CBCDecrypt(cryptBytes(key), Slice(buf, ivOffset, ivOffset + BlockSize),
                                    Slice(buf, payOffset, Len(buf) - Sha256Size))
                      \o Slice(buf, Len(buf) - Sha256Size, Len(buf))
          /\ steps' = Append(steps, nextStep("decrypt", TRUE))
  /\ UNCHANGED <<op, origin, key, keys, msg, genAt, tok, ttl, now, err, route>>

\* return unpad(pay)
VerifyUnpad ==
  /\ origin = "steps" /\ pc = "unpad"
  /\ res' = (IF payOffset > Len(buf) - Sha256Size THEN Panic
             ELSE unpad(Slice(buf, payOffset, Len(buf) - Sha256Size)))
  /\ steps' = Append(steps, "return")
  /\ UNCHANGED <<op, origin, key, keys, msg, genAt, tok, ttl, now, err, route, buf>>

\* verify(p, ttl, now, k) of the framing without a version byte is entered.
DoVerify0Call ==
  /\ op = "idle"
  /\ \E t \in StepToks0, n \in StepNows, k \in {ZeroKey, K1} :
       /\ (k = ZeroKey => t = seal0(MsgOf(5), CHOOSE iv \in IVs : TRUE, T0, K1) /\ n = T0)
       /\ tok' = t
       /\ now' = n
       /\ key' = k
  /\ op' = "verify0"
  /\ origin' = "steps0"
  /\ msg' = MsgOf(5)
  /\ genAt' = T0
  /\ ttl' = Dur(60, 0)
  /\ res' = Nil
  /\ buf' = <<>>
  /\ steps' = <<"header">>
  /\ UNCHANGED <<keys, err, route>>

\* The test of the key, tok := b64dec(p), and binary.Read of the header.
Verify0Header ==
  /\ origin = "steps0" /\ pc = "header"
  /\ IF key = ZeroKey
     THEN /\ buf' = buf
          /\ steps' = Append(steps, "return")
     ELSE /\ buf' = bytesOf(b64dec(tok))
          /\ steps' = Append(steps, nextStep("header", Len(bytesOf(b64dec(tok))) >= headerLen))
  /\ UNCHANGED <<op, origin, key, keys, msg, genAt, tok, ttl, now, res, err, route>>

\* The comparison of h.HMAC with genhmac over the rest of tok.
Verify0Hmac ==
  /\ origin = "steps0" /\ pc = "hmac"
  /\ steps' = Append(steps,
       nextStep("hmac",
         ConstantTimeEq(Slice(buf, 0, Sha256Size),
                        genhmac(Slice(buf, Sha256Size, Len(buf)), signBytes(key)))))
  /\ UNCHANGED <<op, origin, key, keys, msg, genAt, tok, ttl, now, res, err, route, buf>>

\* ts := time.Unix(h.IssuedAt, 0) and the two conditions on it
Verify0Time ==
  /\ origin = "steps0" /\ pc = "time"
  /\ steps' = Append(steps,
       nextStep("time", ~(\/ Expired(TimeUnix(Slice(buf, Sha256Size, Sha256Size + 8)), ttl, now)
                          \/ Skewed(TimeUnix(Slice(buf, Sha256Size, Sha256Size + 8)), now))))
  /\ UNCHANGED <<op, origin, key, keys, msg, genAt, tok, ttl, now, res, err, route, buf>>

\* msg := r.Bytes() and the test of its length
Verify0Len ==
  /\ origin = "steps0" /\ pc = "len"
  /\ steps' = Append(steps, nextStep("len", (Len(buf) - headerLen) % BlockSize = 0))
  /\ UNCHANGED <<op, origin, key, keys, msg, genAt, tok, ttl, now, res, err, route, buf>>

\* CryptBlocks(msg, msg): msg is the rest of tok, which is decrypted in
\* place, with h.IV, a copy of the header's bytes.
Verify0Decrypt ==
  /\ origin = "steps0" /\ pc = "decrypt"
  /\ IF (Len(buf) - headerLen) % BlockSize # 0
     THEN /\ res' = Panic
          /\ buf' = buf
          /\ steps' = Append(steps, "return")
     ELSE /\ res' = res
          /\ buf' = Slice(buf, 0, headerLen)
                      \o CBCDecrypt(cryptBytes(key), Slice(buf, Sha256Size + 8, headerLen),
                                    Slice(buf, headerLen, Len(buf)))
          /\ steps' = Append(steps, nextStep("decrypt", TRUE))
  /\ UNCHANGED <<op, origin, key, keys, msg, genAt, tok, ttl, now, err, route>>

\* return unpad(msg)
Verify0Unpad ==
  /\ origin = "steps0" /\ pc = "unpad"
  /\ res' = unpad(Slice(buf, headerLen, Len(buf)))
  /\ steps' = Append(steps, "return")
  /\ UNCHANGED <<op, origin, key, keys, msg, genAt, tok, ttl, now, err, route, buf>>

Next ==
  \/ DoVerifyCall
  \/ VerifyVersion
  \/ VerifyHmac
  \/ VerifyTime
  \/ VerifyLen
  \/ VerifyDecrypt
  \/ VerifyUnpad
  \/ DoVerify0Call
  \/ Verify0Header
  \/ Verify0Hmac
  \/ Verify0Time
  \/ Verify0Len
  \/ Verify0Decrypt
  \/ Verify0Unpad
  \/ DoPad
  \/ DoVerifyCipher
  \/ DoVerifyCipher0
  \/ DoUnpad
  \/ DoVerifyPayload
  \/ DoEncryptAndSign
  \/ DoForge
  \/ DoVerifyAndDecrypt
  \/ DoGen0
  \/ DoSeal0
  \/ DoVerify0
  \/ DoJsonToken
  \/ DoJsonVerify
  \/ DoVerify
  \/ DoVerifyShort
  \/ DoVerifyCorrupt
  \/ DoVerifyTampered
  \/ DoVerifyWithKeys
  \/ DoDecodeKey
  \/ DoDecodeKey0

Spec == Init /\ [][Next]_vars

\* ------------------------------------------------------------------------
\* Properties
\* ------------------------------------------------------------------------

\* t + d without saturation, for times and durations that cannot overflow.
Plus(t, d) ==
  LET n == t.nsec + d.nsec
  IN  [ext |-> Add64(Add64(t.ext, d.sec), Int64(n \div Second)), nsec |-> n % Second]

\* t <= u
TimeLeq(t, u) == Less64(t.ext, u.ext) \/ (t.ext = u.ext /\ t.nsec <= u.nsec)

\* t truncated to whole seconds: the time the 8-byte timestamp keeps.
Truncated(t) == [ext |-> t.ext, nsec |-> 0]

\* A token of EncryptAndSign was verified with the key that made it.
VerifiedOwn == op = "VerifyAndDecrypt" /\ origin = "EncryptAndSign"

\* C1, as claimed: verifying at time t the token generated at t returns the
\* message, for every non-zero key, message, time t and ttl >= 0.
C1_RoundTrip_AsClaimed ==
  (VerifiedOwn /\ now = genAt) => res = msg

\* C1, amended: verifying at time t the token generated at t returns the
\* message whenever ttl is at least the part of t below a whole second (so
\* for every ttl >= 0 when t is a whole number of seconds, and for every
\* ttl >= 1s), and returns nil for a smaller ttl.
C1_RoundTrip ==
  (VerifiedOwn /\ now = genAt) =>
    IF ~IsNeg64(ttl.sec) /\ (ttl.sec # Int64(0) \/ ttl.nsec >= genAt.nsec)
    THEN res = msg
    ELSE res = Nil

\* C1, witness: a 16-byte message stamped half a second past the second
\* comes back when verified at that time with a ttl of half a second.
C1_Witness ==
  /\ VerifiedOwn /\ now = genAt
  /\ genAt.nsec = half /\ ttl = Dur(0, half)
  /\ Len(msg) = BlockSize /\ res = msg

\* C3, as claimed: a token generated at t is accepted at every now <= t + ttl
\* and rejected at every now >= t + ttl + 1s.
C3_Expiry_AsClaimed ==
  VerifiedOwn =>
    /\ TimeLeq(now, Plus(genAt, ttl)) => res = msg
    /\ TimeLeq(Plus(Plus(genAt, ttl), Dur(1, 0)), now) => res = Nil

\* C3, amended: with ts the generation time truncated to whole seconds, the
\* token is accepted at every now with ts - 60s <= now <= ts + ttl (at
\* exactly ts + ttl too) and rejected at every now > ts + ttl, so at
\* t + ttl + 1s and later.
C3_Expiry ==
  VerifiedOwn =>
    LET ts == Truncated(genAt)
    IN  /\ (TimeLeq(ts, Plus(now, Dur(60, 0))) /\ TimeLeq(now, Plus(ts, ttl))) => res = msg
        /\ ~TimeLeq(now, Plus(ts, ttl)) => res = Nil
        /\ TimeLeq(Plus(Plus(genAt, ttl), Dur(1, 0)), now) => res = Nil

\* C3, witnesses: accepted at exactly ts + ttl; rejected one second later.
C3_Witness ==
  /\ VerifiedOwn
  /\ ttl = Dur(60, 0) /\ genAt.nsec = 0 /\ now = Plus(genAt, ttl)
  /\ res = msg

\* The 8-byte timestamp of the token at hand.
Stamp == UnixOf(genAt)

\* The timestamp is more than 60 seconds ahead of now: Stamp > now + 60s,
\* as a comparison of signed 64-bit seconds.
StampAhead == Less64(Add64(UnixOf(now), Int64(60)), Stamp)

\* now <= Stamp + ttl, for a Stamp that is not ahead.
StampFresh ==
  LET e == Add64(Stamp, ttl.sec)
  IN  Less64(UnixOf(now), e) \/ (UnixOf(now) = e /\ now.nsec <= ttl.nsec)

\* C4: whatever the 8 bytes of the timestamp and the ttl, a token with a
\* valid tag is rejected when its timestamp is more than 60 seconds ahead of
\* now, and a timestamp of at most now + 60s is not rejected for skew: the
\* token is accepted unless it has expired.
C4_ClockSkew ==
  (op = "VerifyAndDecrypt" /\ origin \in {"gen", "EncryptAndSign"} /\ key # ZeroKey) =>
    /\ StampAhead => res = Nil
    /\ (~StampAhead /\ StampFresh) => res = msg

\* C4, witness: a timestamp of the largest int64, a valid tag and the largest
\* ttl, rejected.
C4_Witness ==
  /\ op = "VerifyAndDecrypt" /\ origin = "gen" /\ key # ZeroKey
  /\ Stamp = MaxInt64 /\ ttl = MaxDuration /\ res = Nil

\* C4, second witness: a timestamp of exactly now + 60s, accepted.
C4_WitnessEdge ==
  /\ op = "VerifyAndDecrypt" /\ origin = "gen" /\ key # ZeroKey
  /\ now.nsec = 0 /\ Stamp = Add64(UnixOf(now), Int64(60)) /\ res = msg

\* C2, as claimed: Key.Verify hands the token to the legacy JSON verifier
\* exactly when it contains '|' and to the binary verifier when it does not:
\* a generated token goes to the binary verifier, a legacy token to the
\* legacy one.
C2_Dispatch_AsClaimed ==
  op = "Verify" =>
    /\ route = "json" <=> Contains(tok, pipe)
    /\ origin = "gen0" => route = "binary"
    /\ origin = "json" => route = "json"

\* C5: with the all-zero key, generating returns an error and no token, and
\* verifying returns nil for every token, one encrypted and tagged under the
\* all-zero key included.
C5_ZeroKey ==
  key = ZeroKey =>
    /\ op \in {"EncryptAndSign", "gen0"} => (err /\ tok = Nil)
    /\ op \in {"VerifyAndDecrypt", "verify0", "Verify", "jsonVerify"} => res = Nil

\* C5, witness: a token that verify accepts under the all-zero key was
\* handed to VerifyAndDecrypt with that key.
C5_Witness ==
  /\ op = "VerifyAndDecrypt" /\ key = ZeroKey /\ res = Nil
  /\ verify(Decode64(tok).out, ttl, now, ZeroKey) = msg

\* C5, second witness: generating with the all-zero key failed.
C5_WitnessGen == op = "EncryptAndSign" /\ key = ZeroKey /\ err /\ tok = Nil

\* C6, as claimed: for every token whose decoded length is less than 57
\* bytes, VerifyAndDecrypt returns nil, whatever the key; it does not panic.
C6_Short_AsClaimed ==
  (op = "VerifyAndDecrypt" /\ Len(Decode64(tok).out) < overhead) => res = Nil

\* C7, as claimed: VerifyAndDecrypt returns nil for every token text that the
\* base64 decoder reports as corrupt.
C7_BadBase64_AsClaimed ==
  (op = "VerifyAndDecrypt" /\ Decode64(tok).err) => res = Nil

\* C8: a generated token with any single bit flipped, in the version byte,
\* the timestamp, the IV, the ciphertext or the tag, is rejected by
\* VerifyAndDecrypt with the generating key, at a time and with a ttl at
\* which the token itself is accepted.
C8_Tamper ==
  (op = "VerifyAndDecrypt" /\ origin = "tamper") => res = Nil

\* C8, witness: a bit of the ciphertext of a token of a 17-byte message was
\* flipped, and the token was rejected.
C8_Witness ==
  /\ op = "VerifyAndDecrypt" /\ origin = "tamper" /\ res = Nil
  /\ Len(msg) = MaxMsgLen
  /\ \E iv \in IVs, b \in TamperBits :
       Decode64(tok).out = FlipBit(gen(msg, iv, genAt, key), payOffset, b)

\* C8, second witness: the last bit of the tag was flipped.
C8_WitnessTag ==
  /\ op = "VerifyAndDecrypt" /\ origin = "tamper" /\ res = Nil
  /\ \E iv \in IVs :
       Decode64(tok).out =
         FlipBit(gen(msg, iv, genAt, key), Len(gen(msg, iv, genAt, key)) - 1, 0)

\* The key k is one of the list ks.
InList(k, ks) == \E i \in 1..Len(ks) : ks[i] = k

\* C9: verification against a key list returns the message when the
\* generating key is in the list, wherever it stands, and the token is
\* fresh, and nil when no key of the list is the generating key or the
\* token has expired: a token of K2 verifies under <<K1, K2>> and fails
\* under <<K1>>.
C9_KeyList ==
  op = "verifyWithKeys" =>
    /\ (InList(key, keys) /\ now = genAt) => res = msg
    /\ ~InList(key, keys) => res = Nil
    /\ now # genAt => res = Nil

\* C9, witness: a token of K2 verified under <<K1, K2>>.
C9_Witness ==
  op = "verifyWithKeys" /\ key = K2 /\ keys = <<K1, K2>> /\ res = msg

\* C9, second witness: a token of K2 failed under <<K1>>.
C9_WitnessFail ==
  op = "verifyWithKeys" /\ key = K2 /\ keys = <<K1>> /\ now = genAt /\ res = Nil

\* The text is valid URL-safe base64 that decodes to exactly 32 bytes.
ValidKeyText(s) == ~Decode64(s).err /\ Len(Decode64(s).out) = KeyLen

\* C10, as claimed: DecodeKey succeeds exactly when the text is valid
\* URL-safe base64 that decodes to exactly 32 bytes, returns those bytes,
\* and returns k for the text k.Encode().
C10_DecodeKey_AsClaimed ==
  op \in {"DecodeKey", "DecodeKey0"} =>
    /\ ~err <=> ValidKeyText(tok)
    /\ ~err => res = Decode64(tok).out
    /\ \A k \in {K1, K2, K3, ZeroKey} : tok = KeyEncode(k) => (~err /\ res = k)

\* C2, the failing case: a generated token, which holds no '|', was handed
\* to the legacy verifier and came back nil at a time and with a ttl at
\* which the binary verifier accepts it.
C2_Failing ==
  /\ op = "Verify" /\ origin = "gen0" /\ ~Contains(tok, pipe)
  /\ route = "json" /\ res = Nil
  /\ verify0(tok, ttl, now, key) = msg

\* C6, the failing case: the one-byte token 0x80 made VerifyAndDecrypt panic.
C6_Failing ==
  /\ op = "VerifyAndDecrypt" /\ key # ZeroKey
  /\ Decode64(tok).out = <<version>> /\ res = Panic

\* C7, the failing case: a generated token followed by '%' was accepted and
\* its message returned, although the decoder reported the text corrupt.
C7_Failing ==
  /\ op = "VerifyAndDecrypt" /\ origin = "corrupt"
  /\ tok[Len(tok)] = 37 /\ Decode64(tok).err
  /\ Len(msg) = 5 /\ res = msg

\* C10, the failing case: the text of K1 followed by four line breaks, which
\* decodes to the 32 bytes of K1, was refused by the DecodeKey that decodes
\* into a fixed buffer.
C10_Failing ==
  /\ op = "DecodeKey0" /\ tok = KeyEncode(K1) \o <<10, 10, 10, 10>>
  /\ Decode64(tok).out = K1 /\ ~Decode64(tok).err
  /\ err /\ res = Nil

\* C11: for every message m, pad(m, 16) is m followed by between 1 and 16
\* bytes, each equal to their number (16 of them when the length of m is a
\* multiple of 16), its length is a multiple of 16, and unpad of it is m.
C11_Padding ==
  op = "pad" =>
    LET a == Len(tok) - Len(msg)
    IN  /\ a \in 1..BlockSize
        /\ Len(msg) % BlockSize = 0 => a = BlockSize
        /\ Len(tok) % BlockSize = 0
        /\ SubSeq(tok, 1, Len(msg)) = msg
        /\ \A i \in (Len(msg) + 1)..Len(tok) : tok[i] = a
        /\ res = msg

\* C11, witness: a message of 16 bytes, each 16, was padded with a full
\* block and unpadded to itself.
C11_Witness ==
  /\ op = "pad" /\ msg = Repeat(BlockSize, BlockSize)
  /\ Len(tok) = 2 * BlockSize /\ res = msg

\* The padding of the payload p is malformed: its last byte c is 0, or
\* greater than 16, or greater than the length of p, or some of the last c
\* bytes differs from c.
Malformed(p) ==
  LET c == p[Len(p)]
  IN  \/ c = 0
      \/ c > BlockSize
      \/ c > Len(p)
      \/ \E i \in (Len(p) - c + 1)..Len(p) : i >= 1 /\ p[i] # c

\* C12, as claimed: unpad, and so verify, returns nil for every payload
\* whose padding is malformed; what it returns otherwise is never the
\* payload unstripped and never more than 16 bytes shorter than it.
C12_Unpad_AsClaimed ==
  (op = "unpad" \/ (op = "VerifyAndDecrypt" /\ origin = "payload")) =>
    /\ Malformed(msg) => res = Nil
    /\ res # Nil => (res # msg /\ Len(msg) - Len(res) <= BlockSize)

\* C12, the failing case: a token whose payload ends with the byte 0 was
\* verified and the whole payload returned, unstripped.
C12_Failing ==
  /\ op = "VerifyAndDecrypt" /\ origin = "payload"
  /\ msg[Len(msg)] = 0 /\ res = msg

\* C13, as claimed: verify returns nil, and does not panic, for every token
\* whose ciphertext length is not a positive multiple of 16, the token with
\* a valid tag, a current timestamp and an empty ciphertext included.
C13_CipherLen_AsClaimed ==
  origin \in {"cipher", "cipher0"} => res = Nil

\* C13, the failing case: the 57-byte token with a valid tag, a current
\* timestamp and no ciphertext made VerifyAndDecrypt panic.
C13_Failing ==
  /\ op = "VerifyAndDecrypt" /\ origin = "cipher"
  /\ Len(Decode64(tok).out) = overhead /\ res = Panic

\* C14: the legacy verifier rejects an authentic legacy token under a
\* non-zero key exactly when now is later than issued_at + ttl; an issued_at
\* in the future of now, however far, is accepted.
C14_JsonTTL ==
  (op = "jsonVerify" /\ key # ZeroKey) =>
    IF TimeLeq(now, Plus(genAt, ttl)) THEN res = msg ELSE res = Nil

\* C14, witness: a token issued in the year 9999 was accepted in 1985 with
\* a ttl of 0.
C14_Witness ==
  /\ op = "jsonVerify" /\ key # ZeroKey
  /\ genAt = parseRFC3339(Issued9999).time /\ ttl = Dur(0, 0) /\ res = msg

\* C14, second witness: a token issued at T0 was rejected one nanosecond
\* after T0 + 60s with a ttl of 60s.
C14_WitnessExpired ==
  /\ op = "jsonVerify" /\ key # ZeroKey
  /\ genAt = T0 /\ ttl = Dur(60, 0) /\ now = Plus(T0, Dur(60, 1)) /\ res = Nil

\* The tag of the token bytes t of the version 0x80 framing is the one the
\* key k gives for the bytes before it.
TagOk(t, k) ==
  /\ Len(t) >= Sha256Size
  /\ Slice(t, Len(t) - Sha256Size, Len(t)) = genhmac(Slice(t, 0, Len(t) - Sha256Size), signBytes(k))

\* The same for the framing without a version byte.
TagOk0(t, k) ==
  /\ Len(t) >= headerLen
  /\ Slice(t, 0, Sha256Size) = genhmac(Slice(t, Sha256Size, Len(t)), signBytes(k))

\* The timestamp (8 bytes) is neither expired nor ahead of the clock by
\* more than 60s.
StampOk(ts) ==
  /\ TimeLeq(now, Plus(TimeUnix(ts), ttl))
  /\ TimeLeq(TimeUnix(ts), Plus(now, Dur(60, 0)))

\* In the run of verify on the token bytes t: control reached the decryption
\* or unpad only after the tag comparison and the timestamp tests, and only
\* with a matching tag (tagOk) and a passing timestamp (stampOk); with a tag
\* that does not match, the bytes are as they were passed and the result at
\* the return is nil.
AuthFirst(t, tagOk, stampOk) ==
  /\ \A i \in DOMAIN steps :
       steps[i] \in {"decrypt", "unpad"} =>
         /\ \E h \in 1..(i - 1) : steps[h] = "hmac" /\ \E u \in (h + 1)..(i - 1) : steps[u] = "time"
         /\ tagOk
         /\ stampOk
  /\ ~tagOk =>
       /\ buf \in {<<>>, t}
       /\ \A i \in DOMAIN steps : steps[i] \notin {"decrypt", "unpad"}
       /\ pc = "return" => res = Nil

\* C15: in every run of verify, of either framing, the decryption and the
\* removal of the padding come only after the tag comparison succeeded and
\* the timestamp tests passed; for a token whose tag does not match, the
\* result is nil and no byte was decrypted.  (Tokens of the version 0x80
\* framing shorter than a tag are left aside: they have no tag to compare.)
C15_AuthBeforeDecrypt ==
  /\ (origin = "steps" /\ ~(pc = "return" /\ res = Panic /\ Len(buf) < Sha256Size)) =>
       AuthFirst(Decode64(tok).out, TagOk(Decode64(tok).out, key),
                 Len(buf) >= payOffset /\ StampOk(Slice(buf, tsOffset, tsOffset + 8)))
  /\ origin = "steps0" =>
       AuthFirst(bytesOf(b64dec(tok)), key # ZeroKey /\ TagOk0(bytesOf(b64dec(tok)), key),
                 Len(buf) >= headerLen /\ StampOk(Slice(buf, Sha256Size, Sha256Size + 8)))

\* C15, witness: a run of verify went through the tag comparison, the
\* timestamp tests, the decryption and unpad, and returned the message.
C15_Witness ==
  /\ origin = "steps" /\ pc = "return"
  /\ steps = <<"version", "hmac", "time", "len", "decrypt", "unpad", "return">>
  /\ res = msg

\* C15, second witness: a run of verify on a token with one bit of its
\* ciphertext flipped returned nil from the tag comparison.
C15_WitnessTag ==
  /\ origin = "steps" /\ pc = "return"
  /\ Len(buf) > payOffset + Sha256Size /\ buf[1] = version
  /\ ~TagOk(buf, key)
  /\ steps = <<"version", "hmac", "return">>
  /\ res = Nil

\* C15, third witness: the same in the framing without a version byte.
C15_WitnessTag0 ==
  /\ origin = "steps0" /\ pc = "return"
  /\ Len(buf) > headerLen /\ key # ZeroKey
  /\ ~TagOk0(buf, key)
  /\ steps = <<"header", "hmac", "return">>
  /\ res = Nil

\* The run of verify statement by statement returns what verify returns.
StepsAgree ==
  /\ (origin = "steps" /\ pc = "return") => res = verify(Decode64(tok).out, ttl, now, key)
  /\ (origin = "steps0" /\ pc = "return") => res = verify0(tok, ttl, now, key)

====
